---------------------------- MODULE Spec2Model ----------------------------
(***************************************************************************)
(* The command-line configuration of the bit-flip detector, src/config.rs: *)
(* parse_size_string (the value parser of --memory-to-monitor),            *)
(* parse_si_prefix, parse_delay_string and the Cli argument group.         *)
(*                                                                         *)
(* Strings are sequences of characters; a character is a one-character     *)
(* TLA+ string, or the name of a code point ("U+00E9") when it is not      *)
(* ASCII.  usize is the 64-bit machine word and f64 is IEEE-754 binary64,  *)
(* both computed exactly: TLC's integers are 32 bits wide, so every number *)
(* of the program is a natural number held as a little-endian sequence of  *)
(* limbs (base Limb, no leading zero limb, zero is the empty sequence).    *)
(***************************************************************************)
EXTENDS Integers, Sequences, FiniteSets, TLC

(***************************************************************************)
(* Natural numbers of any size (the values of usize, the significands of   *)
(* f64 and the exact values the claims compare the results with).          *)
(***************************************************************************)
Limb == 2^15

LimbBits == CHOOSE k \in 1..30 : 2^k = Limb

Zero == << >>

\* The number of a TLC integer 0 <= n < Limb^2.
Small(n) ==
    IF n = 0 THEN << >>
    ELSE IF n < Limb THEN <<n>>
    ELSE <<n % Limb, n \div Limb>>

RECURSIVE Norm(_)
Norm(A) ==
    IF A = << >> THEN << >>
    ELSE IF A[Len(A)] = 0 THEN Norm(SubSeq(A, 1, Len(A) - 1))
    ELSE A

RECURSIVE AddC(_, _, _, _)
AddC(A, B, i, c) ==
    IF i > Len(A) /\ i > Len(B)
    THEN (IF c = 0 THEN << >> ELSE <<c>>)
    ELSE LET a == IF i <= Len(A) THEN A[i] ELSE 0
             b == IF i <= Len(B) THEN B[i] ELSE 0
             s == a + b + c
         IN  <<s % Limb>> \o AddC(A, B, i + 1, s \div Limb)

Add(A, B) == AddC(A, B, 1, 0)

\* A - B for A >= B.
RECURSIVE SubC(_, _, _, _)
SubC(A, B, i, c) ==
    IF i > Len(A) THEN << >>
    ELSE LET b == IF i <= Len(B) THEN B[i] ELSE 0
             s == A[i] - b - c
         IN  IF s < 0 THEN <<s + Limb>> \o SubC(A, B, i + 1, 1)
             ELSE <<s>> \o SubC(A, B, i + 1, 0)

Sub(A, B) == Norm(SubC(A, B, 1, 0))

\* -1, 0, 1 as A < B, A = B, A > B.
RECURSIVE CmpFrom(_, _, _)
CmpFrom(A, B, i) ==
    IF i = 0 THEN 0
    ELSE IF A[i] < B[i] THEN -1
    ELSE IF A[i] > B[i] THEN 1
    ELSE CmpFrom(A, B, i - 1)

Cmp(A, B) ==
    IF Len(A) < Len(B) THEN -1
    ELSE IF Len(A) > Len(B) THEN 1
    ELSE CmpFrom(A, B, Len(A))

Leq(A, B) == Cmp(A, B) <= 0

\* A * c for 0 <= c < Limb.
RECURSIVE MulSmallC(_, _, _, _)
MulSmallC(A, c, i, carry) ==
    IF i > Len(A) THEN (IF carry = 0 THEN << >> ELSE <<carry>>)
    ELSE LET p == A[i] * c + carry
         IN  <<p % Limb>> \o MulSmallC(A, c, i + 1, p \div Limb)

MulSmall(A, c) == IF c = 0 THEN << >> ELSE MulSmallC(A, c, 1, 0)

\* A * Limb^n.
LimbShift(A, n) == IF A = << >> THEN << >> ELSE [i \in 1..n |-> 0] \o A

RECURSIVE MulFrom(_, _, _)
MulFrom(A, B, i) ==
    IF i > Len(B) THEN << >>
    ELSE Add(LimbShift(MulSmall(A, B[i]), i - 1), MulFrom(A, B, i + 1))

Mul(A, B) == MulFrom(A, B, 1)

\* Quotient and remainder of A by 0 < c <= Limb, from the top limb down.
RECURSIVE DivSmallFrom(_, _, _, _)
DivSmallFrom(A, c, i, r) ==
    IF i = 0 THEN [q |-> << >>, r |-> r]
    ELSE LET cur  == r * Limb + A[i]
             rest == DivSmallFrom(A, c, i - 1, cur % c)
         IN  [q |-> rest.q \o <<cur \div c>>, r |-> rest.r]

DivSmall(A, c) ==
    LET d == DivSmallFrom(A, c, Len(A), 0)
    IN  [q |-> Norm(d.q), r |-> d.r]

RECURSIVE BitLenSmall(_)
BitLenSmall(n) == IF n = 0 THEN 0 ELSE 1 + BitLenSmall(n \div 2)

\* The number of binary digits of A (0 for zero).
BitLen(A) ==
    IF A = << >> THEN 0
    ELSE LimbBits * (Len(A) - 1) + BitLenSmall(A[Len(A)])

\* A * 2^s.
ShiftLeft(A, s) == LimbShift(MulSmall(A, 2^(s % LimbBits)), s \div LimbBits)

\* A \div 2^s.
ShiftRight(A, s) ==
    IF s \div LimbBits >= Len(A) THEN << >>
    ELSE DivSmall(SubSeq(A, s \div LimbBits + 1, Len(A)), 2^(s % LimbBits)).q

IsOdd(A) == A # << >> /\ A[1] % 2 = 1

\* 10^n, four decimal digits at a time.
RECURSIVE Pow10(_)
Pow10(n) == IF n < 4 THEN <<10^n>> ELSE MulSmall(Pow10(n - 4), 10^4)


(***************************************************************************)
(* Characters and strings.                                                 *)
(***************************************************************************)
AsciiDigits == {"0", "1", "2", "3", "4", "5", "6", "7", "8", "9"}

\* char::to_digit(10) of an ASCII digit.
DigitValue(c) ==
    CASE c = "0" -> 0 [] c = "1" -> 1 [] c = "2" -> 2 [] c = "3" -> 3
      [] c = "4" -> 4 [] c = "5" -> 5 [] c = "6" -> 6 [] c = "7" -> 7
      [] c = "8" -> 8 [] c = "9" -> 9

DigitChar(d) == <<"0", "1", "2", "3", "4", "5", "6", "7", "8", "9">>[d + 1]

\* The characters of the model that are not ASCII: e-acute and the
\* Arabic-Indic digit three (numeric, but no ASCII digit).
NonAscii == {"U+00E9", "U+0663"}

\* char::len_utf8: both non-ASCII characters of the model take two bytes.
len_utf8(c) == IF c \in NonAscii THEN 2 ELSE 1

\* char::is_ascii_digit
is_ascii_digit(c) == c \in AsciiDigits

RECURSIVE ByteLen(_)
ByteLen(s) == IF s = << >> THEN 0 ELSE len_utf8(Head(s)) + ByteLen(Tail(s))

\* The digits of 0 <= n < 10^4: all four of them, or without leading zeros.
FourDigits(n) ==
    <<DigitChar(n \div 1000), DigitChar((n \div 100) % 10),
      DigitChar((n \div 10) % 10), DigitChar(n % 10)>>

FirstDigits(n) ==
    IF n >= 1000 THEN FourDigits(n)
    ELSE IF n >= 100 THEN SubSeq(FourDigits(n), 2, 4)
    ELSE IF n >= 10 THEN SubSeq(FourDigits(n), 3, 4)
    ELSE <<DigitChar(n)>>

\* The numeral of a number, usize's Display (format!("{s}")): most
\* significant digit first, "0" for zero; four digits at a time.
RECURSIVE DisplayFrom(_)
DisplayStep(d) ==
    IF d.q = << >> THEN FirstDigits(d.r) ELSE DisplayFrom(d.q) \o FourDigits(d.r)

DisplayFrom(N) == DisplayStep(DivSmall(N, 10^4))

to_string(N) == IF N = << >> THEN <<"0">> ELSE DisplayFrom(N)

\* The number that at most four ASCII digits denote, as an integer.
RECURSIVE SmallDecimal(_)
SmallDecimal(ds) ==
    IF ds = << >> THEN 0
    ELSE 10 * SmallDecimal(SubSeq(ds, 1, Len(ds) - 1)) + DigitValue(ds[Len(ds)])

\* The number a sequence of ASCII digits denotes (zero for none), four
\* digits at a time.
RECURSIVE Decimal(_)
Decimal(ds) ==
    IF Len(ds) <= 4 THEN Small(SmallDecimal(ds))
    ELSE Add(MulSmall(Decimal(SubSeq(ds, 1, Len(ds) - 4)), 10^4),
             Small(SmallDecimal(SubSeq(ds, Len(ds) - 3, Len(ds)))))

(***************************************************************************)
(* usize.                                                                  *)
(***************************************************************************)
UsizeBits == 64

UsizeMax == Sub(ShiftLeft(<<1>>, UsizeBits), <<1>>)

Ok(v) == [tag |-> "Ok", value |-> v, msg |-> "", arg |-> << >>]

Err(m, a) == [tag |-> "Err", value |-> Zero, msg |-> m, arg |-> a]

Panic == [tag |-> "Panic", value |-> Zero, msg |-> "", arg |-> << >>]

\* <usize as FromStr>::from_str: an optional '+', then one or more ASCII
\* digits, accumulated with checked_mul and checked_add.
RECURSIVE UsizeDigits(_, _, _)
UsizeDigits(s, i, acc) ==
    IF i > Len(s) THEN Ok(acc)
    ELSE IF ~is_ascii_digit(s[i]) THEN Err("invalid digit found in string", << >>)
    ELSE LET next == Add(MulSmall(acc, 10), Small(DigitValue(s[i])))
         IN  IF Leq(next, UsizeMax) THEN UsizeDigits(s, i + 1, next)
             ELSE Err("number too large to fit in target type", << >>)

\* A plausible slip: the target type inferred as u32, so that larger
\* numerals are no integers.
u32_from_str(s) ==
    LET t == IF s = << >> THEN Err("cannot parse integer from empty string", << >>)
             ELSE IF s = <<"+">> \/ s = <<"-">>
             THEN Err("invalid digit found in string", << >>)
             ELSE IF s[1] = "+" THEN UsizeDigits(s, 2, Zero)
             ELSE UsizeDigits(s, 1, Zero)
    IN  IF t.tag = "Ok" /\ ~Leq(t.value, Sub(ShiftLeft(<<1>>, 32), <<1>>))
        THEN Err("number too large to fit in target type", << >>)
        ELSE t

usize_from_str(s) ==
    IF s = << >> THEN Err("cannot parse integer from empty string", << >>)
    ELSE IF s = <<"+">> \/ s = <<"-">> THEN Err("invalid digit found in string", << >>)
    ELSE IF s[1] = "+" THEN UsizeDigits(s, 2, Zero)
    ELSE UsizeDigits(s, 1, Zero)

\* NonZeroUsize::new(t).ok_or_else(|| message)
NonZeroUsize_new(t, message) == IF t = Zero THEN Err(message, << >>) ELSE Ok(t)

(***************************************************************************)
(* f64: a value is sig * 2^exp with sig < 2^53 or sig = 2^53; every        *)
(* operation rounds to nearest, ties to even.  The exponent range of       *)
(* binary64 (no overflow to infinity below 1.8e308, no subnormal above     *)
(* 2.2e-308) is never left by the inputs of the model, whose mantissas     *)
(* have fewer than 30 digits, so exp is unbounded here.                    *)
(***************************************************************************)
F64Digits == 53

F64(sig, exp) == [sig |-> sig, exp |-> exp]

\* Round half to even: r is the significand with one more binary digit
\* than fits, q is r without it, inexact says that digits below r were
\* dropped.
RoundHalfEven(r, q, inexact, exp) ==
    F64(IF IsOdd(r) /\ (inexact \/ IsOdd(q)) THEN Add(q, <<1>>) ELSE q, exp)

RoundShifted(sig, r, sh, exp, sticky) ==
    RoundHalfEven(r, DivSmall(r, 2).q, sticky \/ ShiftLeft(r, sh - 1) # sig, exp + sh)

RoundBy(sig, sh, exp, sticky) ==
    RoundShifted(sig, ShiftRight(sig, sh - 1), sh, exp, sticky)

\* sig * 2^exp (sticky: plus a nonzero part below the last binary digit of
\* sig), rounded to F64Digits binary digits.
Round(sig, exp, sticky) ==
    IF BitLen(sig) <= F64Digits THEN F64(sig, exp)
    ELSE RoundBy(sig, BitLen(sig) - F64Digits, exp, sticky)

\* N \div 5^k, and whether a remainder was dropped; up to six factors of
\* five at a time (d is the quotient by the first j of them, with its
\* remainder).
RECURSIVE DivPow5(_, _, _)
DivPow5Step(d, k, sticky) ==
    IF d.r = 0 THEN DivPow5(d.q, k, sticky) ELSE DivPow5(d.q, k, TRUE)

DivPow5(N, k, sticky) ==
    IF k = 0 THEN [q |-> N, sticky |-> sticky]
    ELSE IF k < 6 THEN DivPow5Step(DivSmall(N, 5^k), 0, sticky)
    ELSE DivPow5Step(DivSmall(N, 5^6), k - 6, sticky)

RoundQuotient(d, exp) == Round(d.q, exp, d.sticky)

\* The f64 nearest to D / 10^k = (D * 2^s \div 5^k) * 2^(-s-k), where s
\* leaves the quotient more binary digits than an f64 holds.
F64FromDecimal(D, k) ==
    IF D = Zero THEN F64(Zero, 0)
    ELSE IF k = 0 THEN RoundQuotient([q |-> D, sticky |-> FALSE], 0)
    ELSE RoundQuotient(DivPow5(ShiftLeft(D, F64Digits + 3 + 3 * k), k, FALSE),
                       0 - (F64Digits + 3 + 3 * k) - k)

\* a * b
F64Mul(a, b) == Round(Mul(a.sig, b.sig), a.exp + b.exp, FALSE)

\* a / 8.0
F64Div8(a) == F64(a.sig, a.exp - 3)

\* The integer part of a.
F64Trunc(a) ==
    IF a.exp >= 0 THEN ShiftLeft(a.sig, a.exp) ELSE ShiftRight(a.sig, 0 - a.exp)

\* `a as usize`: truncates toward zero and saturates at usize::MAX.
F64AsUsize(a) ==
    LET t == F64Trunc(a)
    IN  IF Leq(t, UsizeMax) THEN t ELSE UsizeMax

(***************************************************************************)
(* parse_size_string and what it calls.                                    *)
(***************************************************************************)
OkF(f) == [tag |-> "Ok", f |-> f, msg |-> "", arg |-> << >>]

ErrF(m, a) == [tag |-> "Err", f |-> F64(Zero, 0), msg |-> m, arg |-> a]

\* A plausible slip: the suffix taken to start at the first ASCII letter.
first_ascii_letter(c) ==
    c \in {"k", "M", "G", "T", "P", "E", "Z", "Y", "B", "b", "X", "x"}

\* The closure of line 73: the first character of the suffix.
is_suffix_start(c) == ~is_ascii_digit(c) /\ c # "."

\* size_string.chars().position(..): the number of characters before the
\* first one of the suffix, << >> for None.
RECURSIVE PositionFrom(_, _)
PositionFrom(s, i) ==
    IF i > Len(s) THEN << >>
    ELSE IF is_suffix_start(s[i]) THEN <<i - 1>>
    ELSE PositionFrom(s, i + 1)

position(s) == PositionFrom(s, 1)

\* str::is_char_boundary of a byte offset.
is_char_boundary(s, mid) ==
    \E j \in 0..Len(s) : ByteLen(SubSeq(s, 1, j)) = mid

\* str::split_at of a BYTE offset: panics (<< >> here) off a character
\* boundary.
split_chars(s, j) == <<[number |-> SubSeq(s, 1, j), suffix |-> SubSeq(s, j + 1, Len(s))]>>

split_at(s, mid) ==
    IF ~is_char_boundary(s, mid) THEN << >>
    ELSE split_chars(s, CHOOSE j \in 0..Len(s) : ByteLen(SubSeq(s, 1, j)) = mid)

\* <f64 as FromStr>::from_str of a string of ASCII digits and dots: digits
\* with at most one dot among them and at least one digit.
FractionDigits(number, dots) ==
    IF dots = {} THEN 0 ELSE Len(number) - (CHOOSE i \in dots : TRUE)

f64_from_digits(number, dots, digits) ==
    IF Cardinality(dots) > 1 \/ digits = << >>
    THEN ErrF("invalid float literal", << >>)
    ELSE OkF(F64FromDecimal(Decimal(digits), FractionDigits(number, dots)))

f64_from_str(number) ==
    f64_from_digits(number, {i \in 1..Len(number) : number[i] = "."},
                    SelectSeq(number, is_ascii_digit))

\* The if-chain of parse_si_prefix: N of the literal 1eN it returns, -1
\* where it returns the error.
si_exponent(c) ==
    IF c = "k" THEN 3
    ELSE IF c = "M" THEN 6
    ELSE IF c = "G" THEN 9
    ELSE IF c = "T" THEN 12
    ELSE IF c = "P" THEN 15
    ELSE IF c = "E" THEN 18
    ELSE IF c = "Z" THEN 21
    ELSE IF c = "Y" THEN 24
    ELSE -1

\* The float literal 1eN of the source.
F64Literal1e(n) == Round(Pow10(n), 0, FALSE)

parse_si_prefix(c) ==
    IF si_exponent(c) < 0 THEN ErrF("'{c}' is an unsupported si prefix", <<c>>)
    ELSE OkF(F64Literal1e(si_exponent(c)))

\* Line 107: NonZeroUsize::new(num_bytes as usize).ok_or_else(..)
to_byte_count(num_bytes) == NonZeroUsize_new(F64AsUsize(num_bytes), "too small")

\* Lines 93-98 and 107, si_prefix being what parse_si_prefix returned
\* for the character popped second (Ok(1.0) stands for none popped).
scale(num_bytes, ending, si_prefix) ==
    IF si_prefix.tag = "Err" THEN Err(si_prefix.msg, si_prefix.arg)
    ELSE IF ending = "b" THEN to_byte_count(F64Div8(F64Mul(num_bytes, si_prefix.f)))
    ELSE to_byte_count(F64Mul(num_bytes, si_prefix.f))

\* A plausible slip: 'b' accepted whatever the length of the suffix.
apply_suffix_lone_b(num_bytes, suffix) ==
    IF Len(suffix) > 2
    THEN Err("the suffix is too long, it can be at most two letters", << >>)
    ELSE IF Len(suffix) = 0 THEN to_byte_count(num_bytes)
    ELSE IF ~(suffix[Len(suffix)] = "B" \/ suffix[Len(suffix)] = "b")
    THEN Err("the suffix must end with either 'B' or 'b' and be two characters long", << >>)
    ELSE scale(num_bytes, suffix[Len(suffix)],
               IF Len(suffix) = 2 THEN parse_si_prefix(suffix[1])
               ELSE OkF(F64(<<1>>, 0)))

\* Lines 83-107: the suffix applied to num_bytes, and the final cast.
apply_suffix(num_bytes, suffix) ==
    IF Len(suffix) > 2
    THEN Err("the suffix is too long, it can be at most two letters", << >>)
    ELSE IF Len(suffix) = 0 THEN to_byte_count(num_bytes)
    ELSE IF ~(suffix[Len(suffix)] = "B" \/ (suffix[Len(suffix)] = "b" /\ Len(suffix) = 2))
    THEN Err("the suffix must end with either 'B' or 'b' and be two characters long", << >>)
    ELSE scale(num_bytes, suffix[Len(suffix)],
               IF Len(suffix) = 2 THEN parse_si_prefix(suffix[1])
               ELSE OkF(F64(<<1>>, 0)))

\* Lines 79-81: number.parse().map_err(..)?
with_number(number, suffix, num) ==
    IF num.tag = "Err" THEN Err("could not interpret '{number}' as a number", number)
    ELSE apply_suffix(num.f, suffix)

\* Line 75: split_at, which may panic.
with_parts(parts) ==
    IF parts = << >> THEN Panic
    ELSE with_number(parts[1].number, parts[1].suffix, f64_from_str(parts[1].number))

\* A plausible slip: no suffix found taken as an empty suffix.
with_index_or_end(size_string, index) ==
    IF index = << >> THEN with_parts(split_at(size_string, ByteLen(size_string)))
    ELSE with_parts(split_at(size_string, index[1]))

\* Lines 71-77: the position of the suffix, or the error for none.
with_index(size_string, index) ==
    IF index = << >>
    THEN Err("you need to specify a suffix to use non-integer numbers", << >>)
    ELSE with_parts(split_at(size_string, index[1]))

\* Line 66: match size_string.parse()
match_parse(size_string, t) ==
    IF t.tag = "Ok" THEN NonZeroUsize_new(t.value, "zero is not a valid value")
    ELSE with_index(size_string, position(size_string))

parse_size_string(size_string) == match_parse(size_string, usize_from_str(size_string))

(***************************************************************************)
(* Cli: the options, their value parsers and the argument group            *)
(* "detector memory size".  An Option is a sequence of at most one value.  *)
(***************************************************************************)
None == << >>

Some(x) == <<x>>

DEFAULT_DELAY == <<"3", "0", "s">>

\* The values of --use-all where the platform tells free from available.
AllocationMode == {"available", "free"}

\* s.parse::<humantime::Duration>() on the delays of the model: a number
\* of seconds followed by "s"; anything else is no duration.
parse_delay_string(s) ==
    IF Len(s) >= 2 /\ s[Len(s)] = "s"
       /\ \A i \in 1..(Len(s) - 1) : is_ascii_digit(s[i])
    THEN Ok(Decimal(SubSeq(s, 1, Len(s) - 1)))
    ELSE Err("unknown time unit or invalid number", s)

\* ArgGroup::new("detector memory size").args(&["memory_to_monitor", "use_all"])
GroupArgs == {"memory_to_monitor", "use_all"}

\* A plausible slip: the group left optional.
GroupOptional == FALSE

\* .required(true)
GroupRequired == TRUE

\* ArgGroup::multiple is left at its default, false: the members conflict.
GroupMultiple == FALSE

\* The members of the group present on a command line.
Present(argv) ==
    {a \in GroupArgs : IF a = "memory_to_monitor" THEN argv.memory_to_monitor # None
                       ELSE argv.use_all # None}

\* --use-all's value: a ValueEnum where free and available differ, a bare
\* flag on Windows and FreeBSD.
use_all_valid(platform, v) ==
    IF platform = "windows_freebsd" THEN v = "" ELSE v \in AllocationMode

CliError(kind) ==
    [tag |-> "Error", kind |-> kind, memory_to_monitor |-> None, use_all |-> None,
     delay_between_checks |-> Zero, parallel |-> FALSE, verbose |-> FALSE]

\* Cli::parse(): every supplied value has gone through its value parser
\* (size, delay), then the group is validated, then the struct is built.
Cli_build(platform, argv, size, delay) ==
    IF argv.memory_to_monitor # None /\ size.tag # "Ok"
    THEN CliError("ValueValidation")
    ELSE IF argv.use_all # None /\ ~use_all_valid(platform, argv.use_all[1])
    THEN CliError("InvalidValue")
    ELSE IF delay.tag # "Ok"
    THEN CliError("ValueValidation")
    ELSE IF ~GroupMultiple /\ Cardinality(Present(argv)) > 1
    THEN CliError("ArgumentConflict")
    ELSE IF GroupRequired /\ Present(argv) = {}
    THEN CliError("MissingRequiredArgument")
    ELSE [tag |-> "Cli", kind |-> "",
          memory_to_monitor |-> IF argv.memory_to_monitor = None THEN None
                                ELSE Some(size.value),
          use_all |-> IF platform = "windows_freebsd" THEN argv.use_all # None
                      ELSE argv.use_all,
          delay_between_checks |-> delay.value,
          parallel |-> argv.parallel, verbose |-> argv.verbose]

(***************************************************************************)
(* The inputs of the model.                                                *)
(***************************************************************************)
\* Every string over Alphabet of at most MaxLen characters.
MaxLen == 4

Alphabet == {"0", "1", ".", "+", "k", "B", "b", "X", "U+00E9"}

RECURSIVE StringsOfLen(_, _)
StringsOfLen(chars, n) ==
    IF n = 0 THEN {<< >>}
    ELSE {<<c>> \o s : c \in chars, s \in StringsOfLen(chars, n - 1)}

StringsOf(chars, n) == UNION {StringsOfLen(chars, i) : i \in 0..n}

\* The test's range of exponents, (0..10).
TestPowers == 10

Pow2(n) == ShiftLeft(<<1>>, n)

\* Mantissas whose size or fraction matters: the test's powers of two, the
\* neighbours of 2^53 and of usize::MAX, and fractions.
Mantissas ==
    {to_string(Pow2(i)) : i \in 0..(TestPowers - 1)}
    \cup {to_string(Add(Pow2(F64Digits), Small(d))) : d \in 0..2}
    \cup {to_string(Sub(Add(UsizeMax, Small(d)), <<1>>)) : d \in 0..2}
    \cup {<<"0">>, <<"0", "0", "7">>, <<"1", "0">>, <<"1", "8", "4", "4", "6">>,
          <<"1", "8", "4", "4", "7">>,
          <<"2", ".", "5">>, <<"0", ".", "5">>, <<"0", ".", "0", "0", "1">>,
          <<"7", ".", "9">>, <<"1", ".", "0", "0", "1">>, <<"1", ".", "2", ".", "3">>,
          <<"9", "9", "9", "9", "9", "9", "9", "9", "9", "9", "9", "9",
            "9", "9", "9", "9", "9", "9", "9", "9", "9", "9", "9">>}

SiPrefixes == {"k", "M", "G", "T", "P", "E", "Z", "Y"}

Signs == {<< >>, <<"+">>, <<"-">>}

UnitSuffixes ==
    {<< >>, <<"B">>, <<"b">>, <<"X", "B">>, <<"X", "b">>, <<"X", "x">>, <<"k", "k", "B">>}
    \cup {<<p, t>> : p \in SiPrefixes, t \in {"B", "b"}}

SizeStrings ==
    StringsOf(Alphabet, MaxLen)
    \cup {m \o u : m \in Mantissas, u \in UnitSuffixes}
    \cup {g \o m \o u : g \in Signs, m \in {<< >>, <<"0">>, <<"5">>, <<".", "5">>},
                        u \in {<< >>, <<"B">>, <<"k", "B">>}}

Platforms == {"unix", "windows_freebsd"}

OptionOf(S) == {None} \cup {Some(x) : x \in S}

CommandLines(platform) ==
    [memory_to_monitor : OptionOf({<<"2", "0", "0">>, <<"5", "k", "B">>, <<"0">>,
                                   <<"2", ".", "5">>, <<"1", "Y", "B">>}),
     use_all : OptionOf(IF platform = "windows_freebsd" THEN {""}
                        ELSE AllocationMode \cup {"all"}),
     delay_between_checks : OptionOf({<<"3", "0", "s">>, <<"5", "s">>,
                                      <<"s", "o", "o", "n">>}),
     parallel : BOOLEAN, verbose : BOOLEAN]

NoArgs ==
    [memory_to_monitor |-> None, use_all |-> None, delay_between_checks |-> None,
     parallel |-> FALSE, verbose |-> FALSE]

(***************************************************************************)
(* The state machine: a call of parse_size_string on a string (as in the   *)
(* test), the value shown again and parsed again, and Cli::parse() on a    *)
(* command line.                                                           *)
(***************************************************************************)
VARIABLES
    pc,            \* "call", "returned": parse_size_string; "main", "exit": Cli::parse()
    size_string,   \* the argument of parse_size_string (the value of
                   \* --memory-to-monitor, if any, under Cli::parse())
    result,        \* what the call returned
    origin,        \* the value size_string was formatted from, if it was
    platform,      \* the cfg of the build
    argv,          \* the command line
    cli            \* what Cli::parse() produced

vars == <<pc, size_string, result, origin, platform, argv, cli>>

NoResult == [tag |-> "None", value |-> Zero, msg |-> "", arg |-> << >>]

NoCli == [tag |-> "None", kind |-> "", memory_to_monitor |-> None, use_all |-> None,
          delay_between_checks |-> Zero, parallel |-> FALSE, verbose |-> FALSE]

InitCall ==
    /\ pc = "call"
    /\ size_string \in SizeStrings
    /\ result = NoResult
    /\ origin = None
    /\ platform = "unix"
    /\ argv = NoArgs
    /\ cli = NoCli

InitMain ==
    /\ pc = "main"
    /\ platform \in Platforms
    /\ argv \in CommandLines(platform)
    /\ size_string = (IF argv.memory_to_monitor = None THEN << >>
                      ELSE argv.memory_to_monitor[1])
    /\ result = NoResult
    /\ origin = None
    /\ cli = NoCli

Init == InitCall \/ InitMain

\* parse_size_string(size_string), called on its own or as the value
\* parser of --memory-to-monitor.
Parsed == result' = parse_size_string(size_string)

Call ==
    /\ pc = "call"
    /\ Parsed
    /\ pc' = "returned"
    /\ UNCHANGED <<size_string, origin, platform, argv, cli>>

\* The value returned, shown with its unit ("B") or bare, is parsed again.
Reparse(unit) ==
    /\ pc = "returned"
    /\ result.tag = "Ok"
    /\ size_string' = to_string(result.value) \o unit
    /\ origin' = Some(result.value)
    /\ result' = NoResult
    /\ pc' = "call"
    /\ UNCHANGED <<platform, argv, cli>>

ReparseWithUnit == Reparse(<<"B">>)

ReparseBare == Reparse(<< >>)

\* Cli::parse(): the value parsers, then the group and the struct.
Main ==
    /\ pc = "main"
    /\ IF argv.memory_to_monitor = None THEN result' = NoResult ELSE Parsed
    /\ cli' = Cli_build(platform, argv, result',
                        parse_delay_string(IF argv.delay_between_checks = None
                                           THEN DEFAULT_DELAY
                                           ELSE argv.delay_between_checks[1]))
    /\ pc' = "exit"
    /\ UNCHANGED <<size_string, origin, platform, argv>>

Next == Call \/ ReparseWithUnit \/ ReparseBare \/ Main

Spec == Init /\ [][Next]_vars

(***************************************************************************)
(* The vocabulary of the properties: what a size string says, read         *)
(* independently of the parser.                                            *)
(***************************************************************************)
\* parse_size_string has returned: on its own, or as a value parser.
Returned == pc \in {"returned", "exit"} /\ result.tag # "None"

MantissaChars == AsciiDigits \cup {"."}

\* The length of the maximal leading run of ASCII digits and dots.
LeadingRun(s) ==
    CHOOSE n \in 0..Len(s) :
        /\ \A i \in 1..n : s[i] \in MantissaChars
        /\ n < Len(s) => s[n + 1] \notin MantissaChars

MantissaOf(s) == SubSeq(s, 1, LeadingRun(s))

SuffixOf(s) == SubSeq(s, LeadingRun(s) + 1, Len(s))

\* A plain decimal numeral: one or more ASCII digits.
IsNumeral(s) == s # << >> /\ \A i \in 1..Len(s) : s[i] \in AsciiDigits

\* A numeral of a machine word.
IsUsizeNumeral(s) == IsNumeral(s) /\ Leq(Decimal(s), UsizeMax)

\* A run of digits and dots that is a number: a digit, at most one dot.
IsNumber(m) ==
    /\ \E i \in 1..Len(m) : m[i] \in AsciiDigits
    /\ Cardinality({i \in 1..Len(m) : m[i] = "."}) <= 1

DigitsOf(m) == SelectSeq(m, is_ascii_digit)

FractionLen(m) ==
    IF \E i \in 1..Len(m) : m[i] = "."
    THEN Len(m) - (CHOOSE i \in 1..Len(m) : m[i] = ".")
    ELSE 0

\* The multipliers of the SI prefixes, as powers of ten.
SiPower(p) ==
    CASE p = "k" -> 3 [] p = "M" -> 6 [] p = "G" -> 9 [] p = "T" -> 12
      [] p = "P" -> 15 [] p = "E" -> 18 [] p = "Z" -> 21 [] p = "Y" -> 24

\* "B", or an SI prefix followed by "B" or "b".
IsUnit(u) ==
    \/ u = <<"B">>
    \/ Len(u) = 2 /\ u[1] \in SiPrefixes /\ u[2] \in {"B", "b"}

UnitPower(u) == IF Len(u) = 2 THEN SiPower(u[1]) ELSE 0

IsBits(u) == u[Len(u)] = "b"

\* N \div 10^n, four decimal digits at a time.
RECURSIVE DivPow10(_, _)
DivPow10(N, n) ==
    IF n = 0 THEN N
    ELSE IF n < 4 THEN DivSmall(N, 10^n).q
    ELSE DivPow10(DivSmall(N, 10^4).q, n - 4)

\* The integer part of the exact value of mantissa m with unit u:
\* m * 10^power, over 8 for bits.
ExactBytes(m, u) ==
    LET D     == Decimal(DigitsOf(m))
        k     == FractionLen(m)
        e     == UnitPower(u)
        units == IF e >= k THEN Mul(D, Pow10(e - k)) ELSE DivPow10(D, k - e)
    IN  IF IsBits(u) THEN DivSmall(units, 8).q ELSE units

\* The integer part of the f64 value of mantissa m scaled by unit u: the
\* mantissa as an f64, times the f64 multiplier, over 8.0 for bits.
FloatBytes(m, u) ==
    LET num    == F64FromDecimal(Decimal(DigitsOf(m)), FractionLen(m))
        scaled == IF Len(u) = 2 THEN F64Mul(num, Round(Pow10(SiPower(u[1])), 0, FALSE))
                  ELSE num
    IN  F64Trunc(IF IsBits(u) THEN F64Div8(scaled) ELSE scaled)

ZeroValue == Err("zero is not a valid value", << >>)

SuffixRequired == Err("you need to specify a suffix to use non-integer numbers", << >>)

SuffixTooLong == Err("the suffix is too long, it can be at most two letters", << >>)

InvalidUnitTerminator ==
    Err("the suffix must end with either 'B' or 'b' and be two characters long", << >>)

UnknownSiPrefix(c) == Err("'{c}' is an unsupported si prefix", <<c>>)

TooSmall == Err("too small", << >>)

Str_2_5_GB == <<"2", ".", "5", "G", "B">>

\* The numeral of 2^53 + 1, the first integer that is no f64.
Str_2_53_1 == <<"9", "0", "0", "7", "1", "9", "9", "2", "5", "4", "7", "4", "0", "9", "9", "3">>

(***************************************************************************)
(* The properties.                                                         *)
(***************************************************************************)
\* C1: parse_size_string of the plain decimal numeral of a machine word n
\* returns exactly n (which shows as that numeral again), except that a
\* numeral of zero fails with "zero is not a valid value".
C1_PlainInteger ==
    (Returned /\ IsUsizeNumeral(size_string)) =>
        IF Decimal(size_string) = Zero THEN result = ZeroValue
        ELSE /\ result = Ok(Decimal(size_string))
             /\ size_string[1] # "0" => to_string(result.value) = size_string

\* The numeral of usize::MAX came back as usize::MAX.
C1_Witness ==
    /\ Returned
    /\ size_string = to_string(UsizeMax)
    /\ result = Ok(UsizeMax)

\* C2: for every positive integer n and prefix p of k, M, G, T, P,
\* parse_size_string of n p "B" returns exactly n * multiplier(p).
C2_SiBytesExact ==
    (/\ Returned
     /\ IsNumeral(MantissaOf(size_string))
     /\ Decimal(MantissaOf(size_string)) # Zero
     /\ Len(SuffixOf(size_string)) = 2
     /\ SuffixOf(size_string)[1] \in {"k", "M", "G", "T", "P"}
     /\ SuffixOf(size_string)[2] = "B") =>
        result = Ok(Mul(Decimal(MantissaOf(size_string)),
                        Pow10(SiPower(SuffixOf(size_string)[1]))))

\* 2^53 + 1 kilobytes came back as 2^53 kilobytes.
C2_Failure ==
    /\ Returned
    /\ size_string = Str_2_53_1 \o <<"k", "B">>
    /\ result = Ok(Decimal(<<"9", "0", "0", "7", "1", "9", "9", "2", "5", "4", "7", "4", "0", "9", "9", "2", "0", "0", "0">>))

\* C3: an input whose mantissa and unit are valid and whose scaled value
\* exceeds usize::MAX is an error, never Ok of some value in range.
C3_OverflowIsError ==
    (/\ Returned
     /\ IsNumber(MantissaOf(size_string))
     /\ IsUnit(SuffixOf(size_string))
     /\ ~Leq(ExactBytes(MantissaOf(size_string), SuffixOf(size_string)), UsizeMax)) =>
        result.tag = "Err"

\* "1YB", 10^24 bytes, came back as usize::MAX.
C3_Failure ==
    /\ Returned
    /\ size_string = <<"1", "Y", "B">>
    /\ result = Ok(UsizeMax)

\* C4: a byte count that parse_size_string returned, shown as its decimal
\* digits followed by "B" (or bare) and parsed again, comes back the same.
C4_RoundTrip ==
    (Returned /\ origin # None) => result = Ok(origin[1])

\* 2^53 + 1, shown with "B" and parsed again, came back as 2^53.
C4_Failure ==
    /\ Returned
    /\ origin = Some(Decimal(Str_2_53_1))
    /\ size_string = Str_2_53_1 \o <<"B">>
    /\ result = Ok(Pow2(53))

\* C5: parse_size_string returns Ok of a positive machine word or Err with
\* a message for every input, and never panics: the index that position
\* finds is a character boundary of the string.
C5_Total ==
    /\ Returned =>
        \/ result.tag = "Ok" /\ result.value # Zero /\ Leq(result.value, UsizeMax)
        \/ result.tag = "Err" /\ result.msg # ""
    /\ (pc \in {"call", "returned"} /\ position(size_string) # << >>) =>
        is_char_boundary(size_string, position(size_string)[1])

\* A two-byte character after the mantissa, and one before it: both calls
\* returned an error.
C5_Witness ==
    /\ Returned
    /\ size_string \in {<<"1", "U+00E9", "B">>, <<"U+00E9", "1", "B">>}
    /\ result.tag = "Err"

\* Whether the Cli value holds a memory size, and whether it selects all
\* memory (a mode, or true on Windows and FreeBSD).
HasSize(c) == c.memory_to_monitor # None

UsesAll(c) == IF platform = "windows_freebsd" THEN c.use_all = TRUE ELSE c.use_all # None

\* The selectors supplied on the command line are valid values.
SelectorsValid ==
    /\ argv.memory_to_monitor # None => result.tag = "Ok"
    /\ argv.use_all # None => use_all_valid(platform, argv.use_all[1])

DelayValid ==
    \/ argv.delay_between_checks = None
    \/ parse_delay_string(argv.delay_between_checks[1]).tag = "Ok"

\* C6 as stated: a Cli value has exactly one memory source; both or
\* neither supplied is rejected; exactly one valid selector always yields
\* a Cli value.
C6_AsStated ==
    pc = "exit" =>
        /\ cli.tag = "Cli" => (HasSize(cli) # UsesAll(cli))
        /\ Cardinality(Present(argv)) # 1 => cli.tag = "Error"
        /\ (Cardinality(Present(argv)) = 1 /\ SelectorsValid) => cli.tag = "Cli"

\* C6, amended: a Cli value has exactly one memory source; both or neither
\* supplied is rejected; exactly one valid selector yields a Cli value
\* when the delay, if supplied, is a duration.
C6_ExactlyOneSource ==
    pc = "exit" =>
        /\ cli.tag = "Cli" => (HasSize(cli) # UsesAll(cli))
        /\ Cardinality(Present(argv)) # 1 => cli.tag = "Error"
        /\ (Cardinality(Present(argv)) = 1 /\ SelectorsValid /\ DelayValid) =>
               cli.tag = "Cli"

\* --use-all free alone on the command line gave a Cli value using all
\* memory and holding no size.
C6_Witness ==
    /\ pc = "exit"
    /\ argv.use_all = Some("free")
    /\ cli.tag = "Cli"
    /\ UsesAll(cli)
    /\ ~HasSize(cli)

\* C7: with a mantissa that is a number and a suffix of an SI prefix and
\* 'b', the result is the integer part of mantissa * multiplier / 8, and
\* with 'B' the same without the division ("1Mb" is 125000, "1kb" 125); a
\* result of zero being the error "too small".
C7_BitSuffix ==
    /\ (/\ Returned
        /\ IsNumber(MantissaOf(size_string))
        /\ Len(SuffixOf(size_string)) = 2
        /\ SuffixOf(size_string)[1] \in SiPrefixes
        /\ SuffixOf(size_string)[2] \in {"b", "B"}) =>
           result = IF ExactBytes(MantissaOf(size_string), SuffixOf(size_string)) = Zero
                    THEN TooSmall
                    ELSE Ok(ExactBytes(MantissaOf(size_string), SuffixOf(size_string)))
    /\ (Returned /\ size_string = <<"1", "M", "b">>) => result = Ok(Small(125000))
    /\ (Returned /\ size_string = <<"1", "k", "b">>) => result = Ok(Small(125))

\* "1Yb" returned usize::MAX, and 2^53 + 1 kilobits lost its last 125 bytes.
C7_Failure ==
    /\ Returned
    /\ \/ size_string = <<"1", "Y", "b">> /\ result = Ok(UsizeMax)
       \/ /\ size_string = Str_2_53_1 \o <<"k", "b">>
          /\ result = Ok(Decimal(<<"1", "1", "2", "5", "8", "9", "9", "9", "0", "6", "8", "4", "2", "6", "2", "4", "0", "0", "0">>))

\* C8: with a mantissa that is a number, a suffix of more than two
\* characters is "suffix too long"; otherwise a last character other than
\* 'B', or a lone 'b', is "invalid unit terminator"; otherwise a first of
\* two characters that is no SI prefix is "unknown SI prefix".
C8_SuffixErrors ==
    (Returned /\ IsNumber(MantissaOf(size_string)) /\ SuffixOf(size_string) # << >>) =>
        LET u    == SuffixOf(size_string)
            last == u[Len(u)]
        IN  /\ Len(u) > 2 => result = SuffixTooLong
            /\ (Len(u) <= 2 /\ (last \notin {"B", "b"} \/ u = <<"b">>)) =>
                   result = InvalidUnitTerminator
            /\ (Len(u) = 2 /\ last \in {"B", "b"} /\ u[1] \notin SiPrefixes) =>
                   result = UnknownSiPrefix(u[1])

\* "10b": a lone 'b' was refused as a unit terminator.
C8_Witness ==
    /\ Returned
    /\ size_string = <<"1", "0", "b">>
    /\ result = InvalidUnitTerminator

\* C9 as stated: an input of ASCII digits and dots only that is no numeral
\* of a machine word fails with "you need to specify a suffix"; the same
\* mantissa with a valid suffix is accepted; "2.5GB" is 2500000000.
C9_AsStated ==
    /\ (/\ Returned
        /\ \A i \in 1..Len(size_string) : size_string[i] \in MantissaChars
        /\ ~IsUsizeNumeral(size_string)) => result = SuffixRequired
    /\ (/\ Returned
        /\ ~IsUsizeNumeral(MantissaOf(size_string))
        /\ IsUnit(SuffixOf(size_string))) => result.tag = "Ok"
    /\ (Returned /\ size_string = Str_2_5_GB) =>
           result = Ok(Mul(Small(25), Pow10(8)))

\* C9, amended: an input of ASCII digits and dots only that is no numeral
\* of a machine word fails with "you need to specify a suffix"; the same
\* mantissa with a valid suffix is accepted when it is a number (a digit,
\* at most one dot) whose scaled f64 value is at least 1; "2.5GB" is
\* 2500000000.
C9_SuffixRequired ==
    /\ (/\ Returned
        /\ \A i \in 1..Len(size_string) : size_string[i] \in MantissaChars
        /\ ~IsUsizeNumeral(size_string)) => result = SuffixRequired
    /\ (/\ Returned
        /\ ~IsUsizeNumeral(MantissaOf(size_string))
        /\ IsUnit(SuffixOf(size_string))
        /\ IsNumber(MantissaOf(size_string))
        /\ FloatBytes(MantissaOf(size_string), SuffixOf(size_string)) # Zero) =>
           result.tag = "Ok"
    /\ (Returned /\ size_string = Str_2_5_GB) =>
           result = Ok(Mul(Small(25), Pow10(8)))

\* "2.5" was refused for want of a suffix.
C9_Witness ==
    /\ Returned
    /\ size_string = <<"2", ".", "5">>
    /\ result = SuffixRequired

\* C10: with a valid mantissa and unit the result is the integer part of
\* the scaled f64 value, "too small" when that is zero; no call returns
\* Ok(0), and a numeral of zero is "zero is not a valid value".
C10_Truncation ==
    /\ Returned => result # Ok(Zero)
    /\ (Returned /\ IsNumeral(size_string) /\ Decimal(size_string) = Zero) =>
           result = ZeroValue
    /\ (/\ Returned
        /\ IsNumber(MantissaOf(size_string))
        /\ IsUnit(SuffixOf(size_string))) =>
           result = IF FloatBytes(MantissaOf(size_string), SuffixOf(size_string)) = Zero
                    THEN TooSmall
                    ELSE Ok(FloatBytes(MantissaOf(size_string), SuffixOf(size_string)))

\* 18447 petabytes came back as usize::MAX, not as 18447 * 10^15.
C10_Failure ==
    /\ Returned
    /\ size_string = <<"1", "8", "4", "4", "7", "P", "B">>
    /\ result = Ok(UsizeMax)

=============================================================================
